---- MODULE Spec2Model ----
(***************************************************************************)
(* A model of scripts/pbf_to_tiles.py: the speed-limit normalizer          *)
(* (parse_speed), the way handler that bins features into per-tile         *)
(* buffers, the periodic and final flush to per-tile fragment files, and   *)
(* the finalization loop that turns each fragment into a tile document.    *)
(*                                                                         *)
(* Four specifications share the variables:                                *)
(*   Spec          one run of the script over a bounded stream of ways;    *)
(*   SpecParse     one call of parse_speed on an input from RawInputs;     *)
(*   SpecFinalize  the finalization loop run, and run again, over a set    *)
(*                 of fragments;                                           *)
(*   SpecInsert    the loop of the handler over one tile list.             *)
(***************************************************************************)
EXTENDS Integers, Sequences, FiniteSets, TLC

VARIABLES
    pc,            \* position of the script / of the parse_speed call
    COUNTRY,       \* line 38: args.country.lower()
    args,          \* line 36: [flush, write_legacy]
    ways_seen,     \* line 55
    ways_written,  \* line 56
    buffers,       \* line 53: dict key -> list of json lines, in insertion order
    open_files,    \* line 50: dict key -> gzip handle ("open" / "closed")
    tmpdir,        \* line 47: fragment files, key -> sequence of lines
    listing,       \* line 221: the file names os.listdir returned, not yet visited
    out_country,   \* documents under OUT_COUNTRY, key -> document
    out_legacy,    \* documents under OUT_BASE (legacy path), key -> document
    failure,       \* what raised out of the script, "none" while nothing did
    input,         \* history: the indices (into Stream) of the ways read so far
    written,       \* history: key -> number of documents written under OUT_COUNTRY
    existing,      \* history: the documents under OUT_COUNTRY when the run started
    raw,           \* SpecParse: the argument of parse_speed
    result,        \* SpecParse: what the call produced
    bbox,          \* line 106: the bounds of the last call of mercantile.tiles
    tiles,         \* line 189: the tile list the loop of the handler iterates
    gzip_opens     \* history: the number of calls of gzip.open(fn, "at"), line 133

vars == <<pc, COUNTRY, args, ways_seen, ways_written, buffers, open_files,
          tmpdir, listing, out_country, out_legacy, failure, input, written,
          existing, raw, result, bbox, tiles, gzip_opens>>

(***************************************************************************)
(* Bounds of the model.                                                    *)
(***************************************************************************)
\* Number of ways the source reader yields in one run, at most.
MaxWays == 3
\* The script checks the flush threshold when ways_seen % 2000 == 0
\* (line 198).  The model runs the same code with this shorter period, so
\* that periodic flushes happen inside a stream of MaxWays ways.
FlushPeriod == 2
\* --flush is drawn from 1..MaxFlush.
MaxFlush == 2
\* Length of the numeric part of a speed-limit string, at most.
MaxDigits == 3
\* SpecFinalize: number of lines of a fragment, at most.
MaxFragmentLines == 2
\* SpecFinalize: number of times the finalization loop runs over the fragments.
MaxFinalizerRuns == 2
\* SpecInsert: length of the tile list the handler iterates, at most.
MaxTiles == 3

(***************************************************************************)
(* Strings are sequences of one-character strings.  An optional string     *)
(* (a tag value that dict.get may return as None) is [none, s].            *)
(***************************************************************************)
None == [none |-> TRUE, s |-> <<>>]
Str(s) == [none |-> FALSE, s |-> s]

Digits == {"0", "1", "2", "3", "4", "5", "6", "7", "8", "9"}

DigitVal(c) ==
    CASE c = "0" -> 0 [] c = "1" -> 1 [] c = "2" -> 2 [] c = "3" -> 3
      [] c = "4" -> 4 [] c = "5" -> 5 [] c = "6" -> 6 [] c = "7" -> 7
      [] c = "8" -> 8 [] c = "9" -> 9

\* str.lower(), on the characters the inputs are made of
LowerChar(c) ==
    CASE c = "M" -> "m" [] c = "P" -> "p" [] c = "H" -> "h" [] c = "K" -> "k"
      [] OTHER -> c

Lower(s) == [i \in 1..Len(s) |-> LowerChar(s[i])]

RECURSIVE LStrip(_)
LStrip(s) == IF s # <<>> /\ Head(s) = " " THEN LStrip(Tail(s)) ELSE s

RECURSIVE RStrip(_)
RStrip(s) ==
    IF s # <<>> /\ s[Len(s)] = " " THEN RStrip(SubSeq(s, 1, Len(s) - 1)) ELSE s

\* str.strip()
Strip(s) == RStrip(LStrip(s))

\* the Python test  sub in s
Contains(s, sub) ==
    \E i \in 1..(Len(s) - Len(sub) + 1) : SubSeq(s, i, i + Len(sub) - 1) = sub

RECURSIVE Pow10(_)
Pow10(d) == IF d = 0 THEN 1 ELSE 10 * Pow10(d - 1)

(***************************************************************************)
(* Floats.  float(num) of a string of digits and dots is the rational      *)
(* n / 10^d ([n, d]) when it is finite and inf when the integer part has   *)
(* more digits than the largest double (about 1.8e308, 309 digits).        *)
(* Within the model's inputs the double nearest to n / 10^d rounds, and    *)
(* multiplies by 0.621371 and rounds, as the rational does: a tie of the   *)
(* product needs a value of 500000 or more.                                *)
(***************************************************************************)
FloatMaxDigits == 309

\* the least element of a non-empty set of integers
Least(S) == CHOOSE i \in S : \A j \in S : i <= j

\* s without its leading zeros
DropZeros(s) ==
    LET rest == {i \in 1..Len(s) : s[i] # "0"}
    IN  IF rest = {} THEN <<>> ELSE SubSeq(s, Least(rest), Len(s))

RECURSIVE DigitsVal(_)
DigitsVal(s) ==
    IF s = <<>> THEN 0 ELSE DigitsVal(SubSeq(s, 1, Len(s) - 1)) * 10 + DigitVal(s[Len(s)])

DotCount(s) == Cardinality({i \in 1..Len(s) : s[i] = "."})

\* float(num): "error" is the ValueError of a string that is no number
Float(num) ==
    IF DotCount(num) > 1 \/ \A i \in 1..Len(num) : num[i] = "."
    THEN [kind |-> "error"]
    ELSE LET dot  == IF DotCount(num) = 0 THEN Len(num) + 1
                     ELSE CHOOSE i \in 1..Len(num) : num[i] = "."
             ipart == DropZeros(SubSeq(num, 1, dot - 1))
             fpart == SubSeq(num, dot + 1, Len(num))
         IN  IF Len(ipart) > FloatMaxDigits
             THEN [kind |-> "inf"]
             ELSE [kind |-> "num", n |-> DigitsVal(ipart \o fpart), d |-> Len(fpart)]

\* round(x) of Python 3 for x = num / den >= 0: to the nearest integer, a tie
\* to the even one
RoundHalfEven(num, den) ==
    LET q == num \div den
        r == num % den
    IN  IF 2 * r < den THEN q
        ELSE IF 2 * r > den THEN q + 1
        ELSE IF q % 2 = 0 THEN q ELSE q + 1

\* round(n / 10^d * 0.621371), the product n * 621371 kept in two limbs
\* (hi * 10^6 + lo) so that no intermediate value leaves 32 bits
RoundKmh(n, d) ==
    LET A   == (n \div 1000) * 621371
        B   == (n % 1000) * 621371
        mid == (A % 1000) * 1000 + B
        hi  == A \div 1000 + mid \div 1000000
        lo  == mid % 1000000
        q   == hi \div Pow10(d)
        g   == Pow10(d) - 2 * (hi % Pow10(d))
        up  == g < 0 \/ (g = 0 /\ lo > 0) \/ (g = 1 /\ 2 * lo > 1000000)
        tie == (g = 0 /\ lo = 0) \/ (g = 1 /\ 2 * lo = 1000000)
    IN  IF up THEN q + 1
        ELSE IF tie THEN (IF q % 2 = 0 THEN q ELSE q + 1)
        ELSE q

\* What a call returns: a value, or an exception raised to the caller.
Returned(v) == [raised |-> FALSE, value |-> v]
Raised == [raised |-> TRUE, value |-> 0]

\* int(round(v * 0.621371)), v = n / 10^d
kmh_to_mph(n, d) == Returned(RoundKmh(n, d))

\* lines 70-75: the loop skips characters until the first digit or dot, then
\* takes characters up to the first one that is neither: num is the first
\* run of digits and dots of r
ExtractNum(r) ==
    LET numeric == {i \in 1..Len(r) : r[i] \in Digits \/ r[i] = "."}
    IN  IF numeric = {} THEN <<>>
        ELSE LET first == Least(numeric)
                 after == {i \in first..Len(r) : i \notin numeric}
                 last  == IF after = {} THEN Len(r) ELSE Least(after) - 1
             IN  SubSeq(r, first, last)

\* line 87: int(round(v)), v = n / 10^d
IntRound(n, d) == Returned(RoundHalfEven(n, Pow10(d)))

\* lines 63-90, with the global COUNTRY as country.  int(round(inf)) raises
\* OverflowError, outside the try of line 80.
parse_speed_in(rawv, country) ==
    IF rawv.none \/ rawv.s = <<>> THEN Returned(-1)
    ELSE LET r   == Strip(Lower(rawv.s))
             num == ExtractNum(r)
             v   == Float(num)
         IN  IF num = <<>> THEN Returned(-1)
             ELSE IF v.kind = "error" THEN Returned(-1)
             ELSE IF v.kind = "inf" THEN Raised
             ELSE IF Contains(r, <<"m", "p", "h">>) \/ country = "uk"
                  THEN IntRound(v.n, v.d)
                  ELSE kmh_to_mph(v.n, v.d)

\* parse_speed(raw), as the run calls it
parse_speed(rawv) == parse_speed_in(rawv, COUNTRY)

(***************************************************************************)
(* SpecParse's inputs: None, and every string  prefix . number . suffix    *)
(* with a number of at most MaxDigits digits and dots, and the same around *)
(* a number that is too long for a double.                                 *)
(***************************************************************************)
NumChars == {"0", "5", "7", "."}

RECURSIVE SeqsUpTo(_, _)
SeqsUpTo(S, n) ==
    IF n = 0 THEN {<<>>}
    ELSE LET shorter == SeqsUpTo(S, n - 1)
         IN  shorter \cup {Append(t, c) : t \in shorter, c \in S}

Prefixes == {<<>>, <<" ">>, <<"~">>}
Suffixes == {<<>>, <<"m", "p", "h">>, <<" ", "M", "P", "H">>, <<"k", "m", "/", "h">>,
             <<";", "6", "0">>, <<" ">>}

\* "1" followed by FloatMaxDigits zeros: 10^309, which float() reads as inf
LongDigits == [i \in 1..(FloatMaxDigits + 1) |-> IF i = 1 THEN "1" ELSE "0"]

Numbers == SeqsUpTo(NumChars, MaxDigits) \cup {LongDigits}

RawInputs ==
    {None} \cup {Str(p \o n \o x) : p \in Prefixes, n \in Numbers, x \in Suffixes}

Countries == {"uk", "fr"}

(***************************************************************************)
(* Coordinates.  A number of degrees is <<m, c>>, standing for             *)
(* m * 10^-6 + c * 10^-8 degrees with c in 0..99: fixed point with eight   *)
(* decimals, which holds 85.05112878 and 999.0 exactly.  The code only     *)
(* compares coordinates.                                                   *)
(***************************************************************************)
Deg(m, c) == <<m, c>>
Neg(a) == IF a[2] = 0 THEN <<-a[1], 0>> ELSE <<-a[1] - 1, 100 - a[2]>>
Lt(a, b) == a[1] < b[1] \/ (a[1] = b[1] /\ a[2] < b[2])
Gt(a, b) == Lt(b, a)
Leq(a, b) == ~Lt(b, a)
Zero == Deg(0, 0)

\* line 95: 85.05112878
MercatorLimit == Deg(85051128, 78)
\* lines 151-154: 999.0
BoundsSentinel == Deg(999000000, 0)

\* clamp_lat without the test of line 97
clamp_lat_north_only(lat) ==
    IF Gt(lat, MercatorLimit) THEN MercatorLimit ELSE lat

\* lines 93-99
clamp_lat(lat) ==
    IF Gt(lat, MercatorLimit) THEN MercatorLimit
    ELSE IF Lt(lat, Neg(MercatorLimit)) THEN Neg(MercatorLimit)
    ELSE lat

(***************************************************************************)
(* Tile math (the mercantile library), at the zoom of the model.  At zoom  *)
(* 1 the world is 2 x 2 tiles: column 0 west of the prime meridian, row 0  *)
(* north of the equator.  mercantile.tiles takes the tile of the upper     *)
(* left corner (w, n) and the tile of the lower right corner moved inwards *)
(* by LL_EPSILON = 1e-11 degrees, (e - eps, s + eps), and yields the tiles *)
(* of the columns and rows between them, column by column.  eps is less    *)
(* than the resolution of the coordinates, so e - eps < 0 iff e <= 0.      *)
(***************************************************************************)
\* line 39: args.zoom
Z == 1

TileX(lon) == IF Lt(lon, Zero) THEN 0 ELSE 1
TileY(lat) == IF Gt(lat, Zero) THEN 0 ELSE 1
TileXBeforeEps(lon) == IF Leq(lon, Zero) THEN 0 ELSE 1
TileYAfterEps(lat) == IF Leq(Zero, lat) THEN 0 ELSE 1

RECURSIVE RangeSeq(_, _)
RangeSeq(a, b) == IF a > b THEN <<>> ELSE <<a>> \o RangeSeq(a + 1, b)

RECURSIVE Flatten(_)
Flatten(ss) == IF ss = <<>> THEN <<>> ELSE Head(ss) \o Flatten(Tail(ss))

\* mercantile.tiles(w, s, e, n, [Z]): the keys it yields, in its order
MercantileTiles(w, s, e, n) ==
    LET xs == RangeSeq(TileX(w), TileXBeforeEps(e))
        ys == RangeSeq(TileY(n), TileYAfterEps(s))
    IN  Flatten([i \in 1..Len(xs) |-> [j \in 1..Len(ys) |-> <<Z, xs[i], ys[j]>>]])

\* lines 104-106: the bounds get_tile_list_for_bounds hands to mercantile.tiles
TileMathBounds(minx, miny, maxx, maxy) ==
    [west |-> minx, south |-> clamp_lat(miny), east |-> maxx, north |-> clamp_lat(maxy)]

\* lines 102-106
get_tile_list_for_bounds(minx, miny, maxx, maxy) ==
    LET a == TileMathBounds(minx, miny, maxx, maxy)
    IN  MercantileTiles(a.west, a.south, a.east, a.north)

TileKeys == {<<Z, x, y>> : x \in 0..1, y \in 0..1}

(***************************************************************************)
(* The ways the source reader may yield.  A node is a location, valid or   *)
(* not; tags map "highway" and "maxspeed" to strings when present.  The    *)
(* stream of a run is any sequence of at most MaxWays of these ways: ways  *)
(* that are rejected for each reason, ways of one and of two tiles, two    *)
(* ways with the same id, a way beyond the Mercator limit, and a way whose *)
(* maxspeed is too long for a double.                                      *)
(***************************************************************************)
Node(lon, lat) == [valid |-> TRUE, lon |-> lon, lat |-> lat]
InvalidNode == [valid |-> FALSE]

NW1 == Node(Deg(-1000000, 0), Deg(1000000, 0))
NW2 == Node(Deg(-2000000, 0), Deg(2000000, 0))
NE1 == Node(Deg(1000000, 0), Deg(1000000, 0))
Polar == Node(Deg(-1000000, 0), Deg(89000000, 0))
Antarctic == Node(Deg(-1000000, 0), Deg(-89000000, 0))

Ways == <<
    [id |-> 1, nodes |-> <<NW1, NW2>>,
     tags |-> [highway |-> "residential", maxspeed |-> <<"3", "0", " ", "m", "p", "h">>]],
    [id |-> 2, nodes |-> <<NW1, InvalidNode, NE1>>,
     tags |-> [highway |-> "primary", maxspeed |-> <<"5", "0">>]],
    [id |-> 1, nodes |-> <<NW2, NW1>>,
     tags |-> [highway |-> "service"]],
    [id |-> 3, nodes |-> <<NW1, NW2>>,
     tags |-> [maxspeed |-> <<"5", "0">>]],
    [id |-> 3, nodes |-> <<NW1, InvalidNode>>,
     tags |-> [highway |-> "track"]],
    [id |-> 3, nodes |-> <<NW1>>,
     tags |-> [highway |-> "track"]],
    [id |-> 3, nodes |-> <<Polar, Antarctic>>,
     tags |-> [highway |-> "track"]],
    [id |-> 4, nodes |-> <<NW1, NW2>>,
     tags |-> [highway |-> "motorway", maxspeed |-> LongDigits]]
>>

\* w.tags.get(k)
TagGet(tags, k) == IF k \in DOMAIN tags THEN Str(tags[k]) ELSE None

\* lines 157-162: the valid locations of w.nodes, in order, as (lon, lat)
RECURSIVE Coords(_)
Coords(nodes) ==
    IF nodes = <<>> THEN <<>>
    ELSE IF ~Head(nodes).valid THEN Coords(Tail(nodes))
    ELSE <<<<Head(nodes).lon, Head(nodes).lat>>>> \o Coords(Tail(nodes))

\* lines 151-170: the running minimum and maximum, from the sentinels
RECURSIVE MinFrom(_, _, _)
MinFrom(cs, k, m) ==
    IF cs = <<>> THEN m
    ELSE MinFrom(Tail(cs), k, IF Lt(Head(cs)[k], m) THEN Head(cs)[k] ELSE m)

RECURSIVE MaxFrom(_, _, _)
MaxFrom(cs, k, m) ==
    IF cs = <<>> THEN m
    ELSE MaxFrom(Tail(cs), k, IF Gt(Head(cs)[k], m) THEN Head(cs)[k] ELSE m)

\* minx, miny, maxx, maxy of lines 151-170
Bounds(cs) ==
    [minx |-> MinFrom(cs, 1, BoundsSentinel), miny |-> MinFrom(cs, 2, BoundsSentinel),
     maxx |-> MaxFrom(cs, 1, Neg(BoundsSentinel)), maxy |-> MaxFrom(cs, 2, Neg(BoundsSentinel))]

\* Accepted without the test of line 172
AcceptedByNodeCount(w) ==
    /\ "highway" \in DOMAIN w.tags
    /\ Len(w.nodes) >= 2

\* lines 147-148 and 172-173: the way goes on to become a feature
Accepted(w) ==
    /\ "highway" \in DOMAIN w.tags
    /\ Len(w.nodes) >= 2
    /\ Len(Coords(w.nodes)) >= 2

\* lines 175-184, given the value parse_speed returned
Feature(w, mph) ==
    [type |-> "Feature",
     geometry |-> [type |-> "LineString", coordinates |-> Coords(w.nodes)],
     properties |-> [id |-> w.id,
                     highway |-> w.tags["highway"],
                     maxspeed_raw |-> TagGet(w.tags, "maxspeed"),
                     maxspeed_mph |-> mph]]

\* line 186: json.dumps(feature) + "\n", one line of text; line 234:
\* json.loads of a line gives the feature back (numbers, strings and null
\* survive the round trip, and the text holds no raw line break)
JsonDumps(f) == [json |-> f, newline |-> TRUE]
JsonLoads(line) == line.json

\* line 189: the keys of the tiles of the way's bounding box, in order
WayTiles(w) ==
    LET b == Bounds(Coords(w.nodes))
    IN  get_tile_list_for_bounds(b.minx, b.miny, b.maxx, b.maxy)

(***************************************************************************)
(* buffers is a dict: a sequence of [key, lines] in insertion order.       *)
(***************************************************************************)
BufKeys(b) == {b[i].key : i \in 1..Len(b)}

\* lines 191-193
BufAppend(b, key, js) ==
    IF key \in BufKeys(b)
    THEN [i \in 1..Len(b) |->
            IF b[i].key = key THEN [b[i] EXCEPT !.lines = Append(@, js)] ELSE b[i]]
    ELSE Append(b, [key |-> key, lines |-> <<js>>])

\* lines 189-193
RECURSIVE InsertAll(_, _, _)
InsertAll(b, ts, js) ==
    IF ts = <<>> THEN b
    ELSE InsertAll(BufAppend(b, Head(ts), js), Tail(ts), js)

\* line 122
RECURSIVE TotalLines(_)
TotalLines(b) == IF b = <<>> THEN 0 ELSE Len(Head(b).lines) + TotalLines(Tail(b))

\* a dict with one more entry, or one entry replaced
Put(f, k, v) == [x \in DOMAIN f \cup {k} |-> IF x = k THEN v ELSE f[x]]

EmptyDict == [x \in {} |-> 0]

(***************************************************************************)
(* flush_buffers.  tmpdir is fresh (line 47), so the fragment of a key     *)
(* exists exactly when the key has a handle; gzip.open(fn, "at") creates   *)
(* the file and each write appends to it.                                  *)
(***************************************************************************)
\* OpenAfter keeping only the handles of the keys of this flush
OpenAfterForgetting(b, n, of) == [k \in {b[i].key : i \in 1..n} |-> "open"]

\* lines 130-134, for the first n entries of b: open_files afterwards
RECURSIVE OpenAfter(_, _, _)
OpenAfter(b, n, of) ==
    IF n = 0 THEN of
    ELSE LET prev == OpenAfter(b, n - 1, of)
         IN  IF b[n].key \in DOMAIN prev THEN prev ELSE Put(prev, b[n].key, "open")

\* lines 131-133, for the first n entries of b: how many times gzip.open runs
OpensIn(b, n, of) ==
    Cardinality({i \in 1..n : b[i].key \notin DOMAIN OpenAfter(b, i - 1, of)})

\* line 133: the file exists once it was opened
Touched(td, key) == IF key \in DOMAIN td THEN td ELSE Put(td, key, <<>>)

\* FilesAfter writing each fragment anew (mode "wt") instead of appending
RECURSIVE FilesAfterOverwriting(_, _, _)
FilesAfterOverwriting(b, n, td) ==
    IF n = 0 THEN td
    ELSE Put(FilesAfterOverwriting(b, n - 1, td), b[n].key, b[n].lines)

\* lines 133-136, for the first n entries of b: the fragment files afterwards
RECURSIVE FilesAfter(_, _, _)
FilesAfter(b, n, td) ==
    IF n = 0 THEN td
    ELSE LET prev == Touched(FilesAfter(b, n - 1, td), b[n].key)
         IN  Put(prev, b[n].key, prev[b[n].key] \o b[n].lines)

\* FlushSkipped without the threshold test of lines 121-124
FlushSkippedOnlyWhenEmpty(b, force) == b = <<>>

\* lines 118-124: the call returns without writing
FlushSkipped(b, force) ==
    \/ b = <<>>
    \/ ~force /\ TotalLines(b) < args.flush

\* lines 109-138, called with the buffers b.  A write may raise OSError on
\* any entry; nothing catches it, the entries before it are written and
\* line 138 is not reached.
flush_buffers(b, force) ==
    IF FlushSkipped(b, force)
    THEN /\ buffers' = b
         /\ UNCHANGED <<open_files, tmpdir, failure, gzip_opens>>
    ELSE \/ /\ open_files' = OpenAfter(b, Len(b), open_files)
            /\ gzip_opens' = gzip_opens + OpensIn(b, Len(b), open_files)
            /\ tmpdir' = FilesAfter(b, Len(b), tmpdir)
            /\ buffers' = <<>>
            /\ UNCHANGED failure
         \/ \E j \in 1..Len(b) :
               \* writelines raises on entry j
               /\ open_files' = OpenAfter(b, j, open_files)
               /\ gzip_opens' = gzip_opens + OpensIn(b, j, open_files)
               /\ tmpdir' = Touched(FilesAfter(b, j - 1, tmpdir), b[j].key)
               /\ buffers' = b
               /\ failure' = "spill"

(***************************************************************************)
(* The run.                                                                *)
(***************************************************************************)
\* line 182: parse_speed(w.tags.get("maxspeed")) for each country and each
\* way of Ways, evaluated once
MaxspeedMph ==
    [c \in Countries |->
        [i \in 1..Len(Ways) |-> parse_speed_in(TagGet(Ways[i].tags, "maxspeed"), c)]]

\* lines 150-170 and 104-106: the bounds the handler hands to tile-math for
\* each way of Ways it accepts, evaluated once
BoundsOfWay ==
    [i \in 1..Len(Ways) |->
        IF Accepted(Ways[i])
        THEN LET bs == Bounds(Coords(Ways[i].nodes))
             IN  TileMathBounds(bs.minx, bs.miny, bs.maxx, bs.maxy)
        ELSE <<>>]

\* lines 147-148 and 172-173 for each way of Ways, evaluated once
AcceptedWay == [i \in 1..Len(Ways) |-> Accepted(Ways[i])]

\* lines 175-186: the line the handler serializes for each way of Ways it
\* accepts, under each country, evaluated once
LineOfWay ==
    [c \in Countries |->
        [i \in 1..Len(Ways) |->
            IF Accepted(Ways[i]) /\ ~MaxspeedMph[c][i].raised
            THEN JsonDumps(Feature(Ways[i], MaxspeedMph[c][i].value))
            ELSE <<>>]]

\* line 189: the tile list of each way of Ways, evaluated once
TilesOfWay == [i \in 1..Len(Ways) |-> IF Accepted(Ways[i]) THEN WayTiles(Ways[i]) ELSE <<>>]

\* lines 142-202: the handler, for the way Ways[i]
Way(i) ==
    /\ pc = "reading"
    /\ ways_seen < MaxWays
    /\ ways_seen' = ways_seen + 1
    /\ input' = Append(input, i)
    /\ UNCHANGED <<COUNTRY, args, listing, out_country, out_legacy, written, existing, raw, result>>
    /\ LET mph == MaxspeedMph[COUNTRY][i]
       IN  IF ~AcceptedWay[i]
           THEN UNCHANGED <<pc, ways_written, buffers, open_files, tmpdir, failure,
                            bbox, tiles, gzip_opens>>
           ELSE IF mph.raised
           THEN /\ pc' = "aborted"
                /\ failure' = "parse"
                /\ UNCHANGED <<ways_written, buffers, open_files, tmpdir,
                               bbox, tiles, gzip_opens>>
           ELSE LET js == LineOfWay[COUNTRY][i]
                    ts == TilesOfWay[i]
                    b1 == InsertAll(buffers, ts, js)
                IN  /\ bbox' = BoundsOfWay[i]
                    /\ tiles' = ts
                    /\ ways_written' = ways_written + 1
                    /\ IF (ways_seen + 1) % FlushPeriod = 0
                       THEN /\ flush_buffers(b1, FALSE)
                            /\ pc' = IF failure' = "none" THEN "reading" ELSE "aborted"
                       ELSE /\ buffers' = b1
                            /\ UNCHANGED <<pc, open_files, tmpdir, failure, gzip_opens>>

\* lines 206-209: the reader is exhausted; the final flush
FinalFlush ==
    /\ pc = "reading"
    /\ flush_buffers(buffers, TRUE)
    /\ pc' = IF failure' = "none" THEN "closing" ELSE "aborted"
    /\ UNCHANGED <<COUNTRY, args, ways_seen, ways_written, listing, out_country,
                   out_legacy, input, written, existing, raw, result, bbox, tiles>>

\* CloseFiles in which a close that raises leaves its handle open
CloseFilesLeavingOpen ==
    /\ pc = "closing"
    /\ open_files' \in [DOMAIN open_files -> {"open", "closed"}]
    /\ pc' = "listing"
    /\ UNCHANGED <<COUNTRY, args, ways_seen, ways_written, buffers, tmpdir, listing,
                   out_country, out_legacy, failure, input, written, existing, raw, result,
                   bbox, tiles, gzip_opens>>

\* lines 211-216: close every handle (errors of close are swallowed)
CloseFiles ==
    /\ pc = "closing"
    /\ open_files' = [k \in DOMAIN open_files |-> "closed"]
    /\ pc' = "listing"
    /\ UNCHANGED <<COUNTRY, args, ways_seen, ways_written, buffers, tmpdir, listing,
                   out_country, out_legacy, failure, input, written, existing, raw, result,
                   bbox, tiles, gzip_opens>>

\* line 221: os.listdir(tmpdir), evaluated once; every file is a fragment
ListDir ==
    /\ pc = "listing"
    /\ listing' = DOMAIN tmpdir
    /\ pc' = "finalizing"
    /\ UNCHANGED <<COUNTRY, args, ways_seen, ways_written, buffers, open_files, tmpdir,
                   out_country, out_legacy, failure, input, written, existing, raw, result,
                   bbox, tiles, gzip_opens>>

\* ReadFeatures losing the last line of the fragment
ReadFeaturesDropLast(key) ==
    [i \in 1..(Len(tmpdir[key]) - 1) |-> JsonLoads(tmpdir[key][i])]

\* ReadFeatures starting from the features of the document already at the
\* path of key
ReadFeaturesAfterDocument(key) ==
    (IF key \in DOMAIN out_country THEN out_country[key].features ELSE <<>>)
    \o [i \in 1..Len(tmpdir[key]) |-> JsonLoads(tmpdir[key][i])]

\* lines 230-234: the features of the fragment of key, in file order
ReadFeatures(key) == [i \in 1..Len(tmpdir[key]) |-> JsonLoads(tmpdir[key][i])]

\* line 236
FeatureCollection(features) == [type |-> "FeatureCollection", features |-> features]

\* FinalizeTile leaving a document that is already at the path as it is
FinalizeTileKeepingDocument(key) ==
    /\ pc = "finalizing"
    /\ key \in listing
    /\ listing' = listing \ {key}
    /\ LET fc == FeatureCollection([i \in 1..Len(tmpdir[key]) |-> JsonLoads(tmpdir[key][i])])
       IN  /\ out_country' = IF key \in DOMAIN out_country THEN out_country
                             ELSE Put(out_country, key, fc)
           /\ out_legacy' = IF args.write_legacy THEN Put(out_legacy, key, fc)
                            ELSE out_legacy
    /\ written' = [written EXCEPT ![key] = @ + 1]
    /\ UNCHANGED <<pc, COUNTRY, args, ways_seen, ways_written, buffers, open_files,
                   tmpdir, failure, input, existing, raw, result, bbox, tiles, gzip_opens>>

\* lines 221-247: one turn of the loop, for a file name os.listdir gave (in
\* any order).  The document is written over whatever is at the path.
FinalizeTile(key) ==
    /\ pc = "finalizing"
    /\ key \in listing
    /\ listing' = listing \ {key}
    /\ LET fc == FeatureCollection(ReadFeatures(key))
       IN  /\ out_country' = Put(out_country, key, fc)
           /\ out_legacy' = IF args.write_legacy THEN Put(out_legacy, key, fc)
                            ELSE out_legacy
    /\ written' = [written EXCEPT ![key] = @ + 1]
    /\ UNCHANGED <<pc, COUNTRY, args, ways_seen, ways_written, buffers, open_files,
                   tmpdir, failure, input, existing, raw, result, bbox, tiles, gzip_opens>>

\* lines 221-234: a turn of the loop raises OSError before it writes (while
\* it makes the directory or reads the fragment); nothing catches it
FinalizeTileFails(key) ==
    /\ pc = "finalizing"
    /\ key \in listing
    /\ pc' = "aborted"
    /\ failure' = "finalize"
    /\ UNCHANGED <<COUNTRY, args, ways_seen, ways_written, buffers, open_files, tmpdir,
                   listing, out_country, out_legacy, input, written, existing, raw, result,
                   bbox, tiles, gzip_opens>>

\* Cleanup without waiting for the loop to end
CleanupEarly ==
    /\ pc = "finalizing"
    /\ tmpdir' = EmptyDict
    /\ pc' = "done"
    /\ UNCHANGED <<COUNTRY, args, ways_seen, ways_written, buffers, open_files, listing,
                   out_country, out_legacy, failure, input, written, existing, raw, result,
                   bbox, tiles, gzip_opens>>

\* lines 249-250: the loop is over; remove tmpdir and report
Cleanup ==
    /\ pc = "finalizing"
    /\ listing = {}
    /\ tmpdir' = EmptyDict
    /\ pc' = "done"
    /\ UNCHANGED <<COUNTRY, args, ways_seen, ways_written, buffers, open_files, listing,
                   out_country, out_legacy, failure, input, written, existing, raw, result,
                   bbox, tiles, gzip_opens>>

\* a feature of a document that an earlier run left behind
OldFeature(id) ==
    [type |-> "Feature",
     geometry |-> [type |-> "LineString",
                   coordinates |-> <<<<NW1.lon, NW1.lat>>, <<NW2.lon, NW2.lat>>>>],
     properties |-> [id |-> id, highway |-> "old", maxspeed_raw |-> None,
                     maxspeed_mph |-> -1]]

\* a file at the path of a document whose content json cannot read
CorruptDocument == [type |-> "corrupt"]

\* line 43: OUT_COUNTRY may exist already (exist_ok), with documents in it:
\* none, or a readable document at one path and an unreadable one at another
ExistingOutputs ==
    {EmptyDict,
     Put(Put(EmptyDict, <<Z, 0, 0>>, FeatureCollection(<<OldFeature(1), OldFeature(2)>>)),
         <<Z, 1, 0>>, CorruptDocument)}

\* lines 24-56: the state when the reader starts
Init ==
    /\ pc = "reading"
    /\ COUNTRY \in Countries
    /\ args \in [flush : 1..MaxFlush, write_legacy : BOOLEAN]
    /\ ways_seen = 0
    /\ ways_written = 0
    /\ buffers = <<>>
    /\ open_files = EmptyDict
    /\ tmpdir = EmptyDict
    /\ listing = {}
    /\ out_country \in ExistingOutputs
    /\ existing = out_country
    /\ out_legacy = EmptyDict
    /\ failure = "none"
    /\ input = <<>>
    /\ written = [k \in TileKeys |-> 0]
    /\ bbox = <<>>
    /\ tiles = <<>>
    /\ gzip_opens = 0
    /\ raw = None
    /\ result = Returned(0)

Next ==
    \/ \E i \in 1..Len(Ways) : Way(i)
    \/ FinalFlush
    \/ CloseFiles
    \/ ListDir
    \/ \E key \in TileKeys : FinalizeTile(key)
    \/ \E key \in TileKeys : FinalizeTileFails(key)
    \/ Cleanup

Spec == Init /\ [][Next]_vars

(***************************************************************************)
(* One call of parse_speed.                                                *)
(***************************************************************************)
InitParse ==
    /\ pc = "call"
    /\ COUNTRY \in Countries
    /\ raw \in RawInputs
    /\ result = Returned(0)
    /\ args = [flush |-> 1, write_legacy |-> FALSE]
    /\ ways_seen = 0
    /\ ways_written = 0
    /\ buffers = <<>>
    /\ open_files = EmptyDict
    /\ tmpdir = EmptyDict
    /\ listing = {}
    /\ out_country = EmptyDict
    /\ existing = EmptyDict
    /\ out_legacy = EmptyDict
    /\ failure = "none"
    /\ input = <<>>
    /\ written = [k \in TileKeys |-> 0]
    /\ bbox = <<>>
    /\ tiles = <<>>
    /\ gzip_opens = 0

\* line 182: the call and its outcome
CallParseSpeed ==
    /\ pc = "call"
    /\ result' = parse_speed(raw)
    /\ pc' = "returned"
    /\ UNCHANGED <<COUNTRY, args, ways_seen, ways_written, buffers, open_files, tmpdir,
                   listing, out_country, out_legacy, failure, input, written, existing, raw,
                   bbox, tiles, gzip_opens>>

NextParse == CallParseSpeed

SpecParse == InitParse /\ [][NextParse]_vars

(***************************************************************************)
(* The finalization loop run over a set of fragments, and run again over   *)
(* the same fragments (nothing deletes them in between).                   *)
(***************************************************************************)
\* line 186: the lines the handler writes for the ways of Ways it accepts
FragmentLines ==
    {JsonDumps(Feature(Ways[i], MaxspeedMph["uk"][i].value)) :
        i \in {j \in 1..Len(Ways) : Accepted(Ways[j]) /\ ~MaxspeedMph["uk"][j].raised}}

\* lines 126-136: the fragment files a run may have left in tmpdir
FragmentDirs ==
    UNION {[S -> SeqsUpTo(FragmentLines, MaxFragmentLines)] :
              S \in SUBSET {<<Z, 0, 0>>, <<Z, 1, 0>>}}

\* lines 211-221: the handles are closed, the loop is about to start
InitFinalize ==
    /\ pc = "listing"
    /\ COUNTRY = "uk"
    /\ args \in [flush : {1}, write_legacy : BOOLEAN]
    /\ tmpdir \in FragmentDirs
    /\ open_files = [k \in DOMAIN tmpdir |-> "closed"]
    /\ gzip_opens = Cardinality(DOMAIN tmpdir)
    /\ buffers = <<>>
    /\ ways_seen = 0
    /\ ways_written = 0
    /\ listing = {}
    /\ out_country = EmptyDict
    /\ existing = EmptyDict
    /\ out_legacy = EmptyDict
    /\ failure = "none"
    /\ input = <<>>
    /\ written = [k \in TileKeys |-> 0]
    /\ bbox = <<>>
    /\ tiles = <<>>
    /\ raw = None
    /\ result = Returned(0)

\* lines 221-247 once more: the loop is over and is entered again
RunFinalizerAgain ==
    /\ pc = "finalizing"
    /\ listing = {}
    /\ \A k \in DOMAIN tmpdir : written[k] < MaxFinalizerRuns
    /\ pc' = "listing"
    /\ UNCHANGED <<COUNTRY, args, ways_seen, ways_written, buffers, open_files, tmpdir,
                   listing, out_country, out_legacy, failure, input, written, existing,
                   raw, result, bbox, tiles, gzip_opens>>

NextFinalize ==
    \/ ListDir
    \/ \E key \in TileKeys : FinalizeTile(key)
    \/ RunFinalizerAgain

SpecFinalize == InitFinalize /\ [][NextFinalize]_vars

(***************************************************************************)
(* The loop of the handler over a tile list (lines 189-193).  The loop     *)
(* iterates whatever get_tile_list_for_bounds returns, a generator of      *)
(* tiles of the tile-math library; here the list is any sequence of keys,  *)
(* a key more than once included.                                          *)
(***************************************************************************)
\* line 189: what the tile-math call may yield
TileLists == SeqsUpTo({<<Z, 0, 0>>, <<Z, 1, 0>>}, MaxTiles)

\* lines 142-186: the handler has serialized the feature of the way input[1]
\* and is about to iterate the tile list
InitInsert ==
    /\ pc = "inserting"
    /\ COUNTRY = "uk"
    /\ args = [flush |-> 1, write_legacy |-> FALSE]
    /\ tiles \in TileLists
    /\ \E i \in {j \in 1..Len(Ways) : Accepted(Ways[j]) /\ ~MaxspeedMph["uk"][j].raised} :
          input = <<i>>
    /\ buffers \in {<<>>} \cup {<<[key |-> <<Z, 0, 0>>, lines |-> <<l>>]>> : l \in FragmentLines}
    /\ ways_seen = 1
    /\ ways_written = 0
    /\ open_files = EmptyDict
    /\ gzip_opens = 0
    /\ tmpdir = EmptyDict
    /\ listing = {}
    /\ out_country = EmptyDict
    /\ existing = EmptyDict
    /\ out_legacy = EmptyDict
    /\ failure = "none"
    /\ written = [k \in TileKeys |-> 0]
    /\ bbox = <<>>
    /\ raw = None
    /\ result = Returned(0)

\* lines 189-195
InsertPayloads ==
    /\ pc = "inserting"
    /\ buffers' = InsertAll(buffers, tiles,
                            JsonDumps(Feature(Ways[input[1]], MaxspeedMph[COUNTRY][input[1]].value)))
    /\ ways_written' = ways_written + 1
    /\ pc' = "inserted"
    /\ UNCHANGED <<COUNTRY, args, ways_seen, open_files, tmpdir, listing, out_country,
                   out_legacy, failure, input, written, existing, raw, result, bbox, tiles,
                   gzip_opens>>

NextInsert == InsertPayloads

SpecInsert == InitInsert /\ [][NextInsert]_vars

(***************************************************************************)
(* Terms of the claims.                                                    *)
(***************************************************************************)
Range(q) == {q[i] : i \in 1..Len(q)}

\* the record has the category tag
HasCategory(w) == "highway" \in DOMAIN w.tags

\* the valid points of the record, in their original order
ValidPoints(w) ==
    LET vs == SelectSeq(w.nodes, LAMBDA n : n.valid)
    IN  [i \in 1..Len(vs) |-> <<vs[i].lon, vs[i].lat>>]

\* an accepted record: the category tag and at least 2 valid points
AcceptedRecord(w) == HasCategory(w) /\ Len(ValidPoints(w)) >= 2

\* f is a Feature made from the record w
FeatureMatches(f, w) ==
    /\ f.properties.id = w.id
    /\ HasCategory(w) /\ f.properties.highway = w.tags["highway"]
    /\ f.geometry.coordinates = ValidPoints(w)

\* the accepted records among Ways, and the tile set tile-math returns for
\* the bounding box of each
AcceptedWays == {i \in 1..Len(Ways) : AcceptedRecord(Ways[i])}
TileSetOf == [i \in 1..Len(Ways) |-> Range(WayTiles(Ways[i]))]

\* the positions in the input of the accepted records with key k among the
\* tiles of their bounding box
Hits(k) == {j \in 1..Len(input) : input[j] \in AcceptedWays /\ k \in TileSetOf[input[j]]}

\* C1: after a run completes, the run has written a document for a key
\* exactly when an accepted record of the input has the key among its tiles,
\* it has written it once, and the document holds a Feature of each such
\* record and of no other; a key without such a record keeps what it had.
RunWritesOneDocumentPerHitTile ==
    pc = "done" =>
        \A k \in TileKeys :
            LET hits == Hits(k)
            IN  /\ written[k] = IF hits # {} THEN 1 ELSE 0
                /\ hits # {} =>
                      /\ k \in DOMAIN out_country
                      /\ \A j \in hits : \E f \in Range(out_country[k].features) :
                            FeatureMatches(f, Ways[input[j]])
                      /\ \A f \in Range(out_country[k].features) : \E j \in hits :
                            FeatureMatches(f, Ways[input[j]])
                      /\ args.write_legacy => out_legacy[k] = out_country[k]
                /\ hits = {} =>
                      /\ k \in DOMAIN out_country <=> k \in DOMAIN existing
                      /\ k \in DOMAIN existing => out_country[k] = existing[k]

\* C1's case: a completed run with a tile of two records, a tile of none and
\* a rejected record
RunCompleteWitness ==
    /\ pc = "done"
    /\ \E k \in TileKeys : Cardinality(Hits(k)) >= 2
    /\ \E k \in TileKeys : Hits(k) = {} /\ k \notin DOMAIN out_country
    /\ \E j \in 1..Len(input) : input[j] \notin AcceptedWays

\* a document json can read, and its Features
Readable(doc) == doc.type = "FeatureCollection"
DocFeatures(doc) == IF Readable(doc) THEN doc.features ELSE <<>>

\* C2: no two Features of a document share an identifier.
NoDuplicateIds ==
    \A k \in DOMAIN out_country :
        LET fs == DocFeatures(out_country[k])
        IN  \A i, j \in 1..Len(fs) :
                i # j => fs[i].properties.id # fs[j].properties.id

\* C3: while nothing has failed, every Feature of a document that existed
\* before the run is still in the document at that key.
ExistingFeaturesKept ==
    failure = "none" =>
        \A k \in DOMAIN existing : \A f \in Range(DocFeatures(existing[k])) :
            f \in Range(DocFeatures(out_country[k]))

\* A pool of handles whose size does not grow with the tile keys: fewer
\* handles than the distinct keys a run of the model can spill.
HandleBound == Cardinality(TileKeys) - 2

OpenHandles == {k \in DOMAIN open_files : open_files[k] = "open"}

\* C4: the number of open append handles never exceeds the bound.
OpenHandlesBounded == Cardinality(OpenHandles) <= HandleBound

\* the most insertions one record makes
MaxInsertionsPerWay ==
    LET counts == {Len(WayTiles(Ways[i])) : i \in {j \in 1..Len(Ways) : Accepted(Ways[j])}}
    IN  CHOOSE m \in counts : \A c \in counts : c <= m

\* C5: the buffered lines never exceed --flush by more than the insertions
\* of one record.
BufferedWithinFlushThreshold ==
    pc = "reading" => TotalLines(buffers) <= args.flush + MaxInsertionsPerWay

\* the Features of this run: in the buffers, in the fragments and in the
\* documents the run has written
FeaturesHeld ==
    UNION {{JsonLoads(l) : l \in Range(buffers[i].lines)} : i \in 1..Len(buffers)}
    \cup UNION {{JsonLoads(l) : l \in Range(tmpdir[k])} : k \in DOMAIN tmpdir}
    \cup UNION {Range(out_country[k].features) : k \in {x \in TileKeys : written[x] > 0}}
    \cup UNION {Range(out_legacy[k].features) : k \in DOMAIN out_legacy}

\* C6: every Feature held anywhere has at least 2 points and is made of the
\* valid points, in order, of an accepted record of the input; and reading a
\* record that lacks the category tag or has fewer than 2 valid points
\* changes no buffer, fragment or document.
OnlyAcceptedRecordsMakeFeatures ==
    /\ [](\A f \in FeaturesHeld :
            /\ Len(f.geometry.coordinates) >= 2
            /\ \E j \in 1..Len(input) :
                  input[j] \in AcceptedWays /\ FeatureMatches(f, Ways[input[j]]))
    /\ [][(input' # input /\ input'[Len(input')] \notin AcceptedWays)
            => UNCHANGED <<buffers, tmpdir, out_country, out_legacy, ways_written>>]_vars

\* C6's case: a written document holds the Feature of the record whose
\* second node is invalid, and records rejected for the tag and for the
\* points were read
RejectedRecordsWitness ==
    /\ \E k \in TileKeys :
          written[k] > 0 /\ \E f \in Range(out_country[k].features) :
              FeatureMatches(f, Ways[2])
    /\ \E j \in 1..Len(input) : ~HasCategory(Ways[input[j]])
    /\ \E j \in 1..Len(input) :
          HasCategory(Ways[input[j]]) /\ Len(ValidPoints(Ways[input[j]])) < 2

\* C7: an I/O failure of a spill or of the finalization of a key does not
\* abort the run.
IOFailureIsolated == failure \in {"spill", "finalize"} => pc # "aborted"

\* C8: between records the pending lines are below the flush threshold (a
\* spill has been performed whenever they reached it).
SpilledWheneverThresholdReached ==
    pc = "reading" => TotalLines(buffers) < args.flush

(***************************************************************************)
(* Terms of the claims about parse_speed.                                  *)
(***************************************************************************)
IsNumeric(c) == c \in Digits \/ c = "."

\* s contains "mph" in any letter case
ContainsMphAnyCase(s) ==
    \E i \in 1..(Len(s) - 2) :
        /\ s[i] \in {"m", "M"}
        /\ s[i + 1] \in {"p", "P"}
        /\ s[i + 2] \in {"h", "H"}

\* the digits and dots a string starts with (after its leading blanks)
LeadingRun(s) ==
    LET t == LStrip(s)
        n == Cardinality({i \in 1..Len(t) : \A j \in 1..i : IsNumeric(t[j])})
    IN  SubSeq(t, 1, n)

\* a run of digits and dots that is a number: a digit, at most one dot
IsNumber(u) ==
    /\ \E i \in 1..Len(u) : u[i] \in Digits
    /\ Cardinality({i \in 1..Len(u) : u[i] = "."}) <= 1

\* the digits of u as an integer, and the number of them after the dot
Numerator(u) == DigitsVal(SelectSeq(u, LAMBDA c : c \in Digits))
Decimals(u) ==
    Cardinality({i \in 1..Len(u) : u[i] \in Digits /\ \E j \in 1..(i - 1) : u[j] = "."})

\* the whole string is a number
PurelyNumeric(s) == s # <<>> /\ LeadingRun(s) = s /\ IsNumber(s)

\* no digit in s, or the first run of digits and dots of s is no number
Unparseable(s) ==
    LET first == {i \in 1..Len(s) : IsNumeric(s[i]) /\ (i = 1 \/ ~IsNumeric(s[i - 1]))}
    IN  \/ \A i \in 1..Len(s) : s[i] \notin Digits
        \/ first # {} /\ ~IsNumber(LeadingRun(SubSeq(s, Least(first), Len(s))))

\* C9: for a string that contains "mph" in any letter case and starts with a
\* number, parse_speed returns that number rounded, for every country.
MphKeepsLeadingValue ==
    (pc = "returned" /\ ~raw.none /\ ContainsMphAnyCase(raw.s)
        /\ IsNumber(LeadingRun(raw.s)))
    => /\ ~result.raised
       /\ result.value = RoundHalfEven(Numerator(LeadingRun(raw.s)),
                                       Pow10(Decimals(LeadingRun(raw.s))))

\* C10: under a country other than uk a purely numeric string gives
\* round(value * 0.621371); None, the empty string, a string without digits
\* and an unparseable string give -1; the call never raises.
KmhConvertsAndSentinel ==
    pc = "returned" =>
        /\ (COUNTRY # "uk" /\ ~raw.none /\ PurelyNumeric(raw.s))
            => /\ ~result.raised
               /\ result.value = RoundHalfEven(Numerator(raw.s) * 621371,
                                               Pow10(Decimals(raw.s) + 6))
        /\ (raw.none \/ raw.s = <<>> \/ Unparseable(raw.s))
            => result = Returned(-1)

\* C9 and C10 for the numbers a double holds: the two formulas above with
\* the numbers of more than FloatMaxDigits digits left out
FitsDouble(s) == Cardinality({i \in 1..Len(s) : s[i] \in Digits}) <= FloatMaxDigits
MphKeepsLeadingValueInRange == (~raw.none /\ FitsDouble(raw.s)) => MphKeepsLeadingValue
KmhConvertsAndSentinelInRange == (~raw.none /\ FitsDouble(raw.s)) => KmhConvertsAndSentinel

(***************************************************************************)
(* Claims about the finalization loop run twice.                           *)
(***************************************************************************)
\* C11: when the finalization loop runs again over the same fragments of a
\* key that had no document before the first run, the document it writes is
\* identical to the one the first run wrote (and so is the legacy copy).
FinalizationIdempotent ==
    [][\A k \in TileKeys :
          (written[k] >= 1 /\ written'[k] = written[k] + 1 /\ k \notin DOMAIN existing)
          => /\ out_country'[k] = out_country[k]
             /\ args.write_legacy => out_legacy'[k] = out_legacy[k]]_vars

\* C11's case: the loop has written the document of a fragment of two lines
\* a second time
FinalizedTwiceWitness ==
    \E k \in DOMAIN tmpdir :
        /\ written[k] = 2
        /\ Len(tmpdir[k]) >= 2
        /\ k \in DOMAIN out_country

(***************************************************************************)
(* Claims about the fragments and the order of the run.                    *)
(***************************************************************************)
\* the tile list of each record and the payload the handler serializes for
\* it, under each country
TileListOf == [i \in 1..Len(Ways) |-> WayTiles(Ways[i])]
PayloadOf ==
    [c \in Countries |->
        [i \in 1..Len(Ways) |->
            IF i \in AcceptedWays /\ ~MaxspeedMph[c][i].raised
            THEN JsonDumps(Feature(Ways[i], MaxspeedMph[c][i].value))
            ELSE <<>>]]

\* the payloads inserted for the key k by the first n records of the input,
\* in the order of the source reader
RECURSIVE InsertedUpTo(_, _)
InsertedUpTo(k, n) ==
    IF n = 0 THEN <<>>
    ELSE LET i == input[n]
             times == IF i \in AcceptedWays /\ ~MaxspeedMph[COUNTRY][i].raised
                      THEN Cardinality({m \in 1..Len(TileListOf[i]) : TileListOf[i][m] = k})
                      ELSE 0
         IN  InsertedUpTo(k, n - 1) \o [m \in 1..times |-> PayloadOf[COUNTRY][i]]

Inserted(k) == InsertedUpTo(k, Len(input))

\* C12: for a key whose document was unreadable before the run, the turn of
\* the finalization loop for the key can be taken, and once it is taken the
\* document at the key is readable and holds exactly the Features inserted
\* for the key, in order (nothing of the unreadable document).
CorruptDocumentReplaced ==
    \A k \in DOMAIN existing :
        ~Readable(existing[k]) =>
            /\ (pc = "finalizing" /\ k \in listing) => ENABLED FinalizeTile(k)
            /\ written[k] > 0 =>
                  /\ Readable(out_country[k])
                  /\ Inserted(k) # <<>>
                  /\ out_country[k].features =
                        [i \in 1..Len(Inserted(k)) |-> JsonLoads(Inserted(k)[i])]

\* C12's case: the run is done and has written the document of a key whose
\* document was unreadable
CorruptDocumentWitness ==
    /\ pc = "done"
    /\ \E k \in DOMAIN existing :
          ~Readable(existing[k]) /\ written[k] > 0 /\ Len(Inserted(k)) >= 2

\* the fragment of the key k and the pending list of k, empty when absent
FragmentOf(k) == IF k \in DOMAIN tmpdir THEN tmpdir[k] ELSE <<>>
PendingOf(k) ==
    LET at == {i \in 1..Len(buffers) : buffers[i].key = k}
    IN  IF at = {} THEN <<>> ELSE buffers[CHOOSE i \in at : TRUE].lines

\* C13: while the run reads the stream and until the finalization loop
\* starts, the fragment of every key followed by its pending list is the
\* sequence of payloads inserted for the key, in reader order; a spill that
\* writes leaves every bucket empty; and after the final flush the buffers
\* are empty, so each fragment is the whole insertion sequence of its key.
SpillKeepsInsertionOrder ==
    /\ [](pc \in {"reading", "closing", "listing"} =>
            \A k \in TileKeys : FragmentOf(k) \o PendingOf(k) = Inserted(k))
    /\ [](pc \in {"closing", "listing"} =>
            /\ buffers = <<>>
            /\ \A k \in TileKeys : FragmentOf(k) = Inserted(k))
    /\ [][(tmpdir' # tmpdir /\ pc' \in {"reading", "closing"}) => buffers' = <<>>]_vars

\* C13's case: a key has a fragment from a periodic spill and a payload
\* pending after it
SpilledAndPendingWitness ==
    /\ pc = "reading"
    /\ \E k \in TileKeys : Len(FragmentOf(k)) >= 2 /\ PendingOf(k) # <<>>

\* a step in which the finalization loop reads a fragment: it goes on to
\* write the document, or it fails
ReadsFragment == written' # written \/ (failure' = "finalize" /\ failure # "finalize")

\* C14: a fragment is read only when the reader has returned, the final
\* flush has left the buffers empty and every payload in its fragment, and
\* every handle is closed; and from the listing of the fragments on, no step
\* reads a record, changes a buffer, a handle or (before the final removal)
\* a fragment.
FragmentsReadAfterSpillingEnded ==
    /\ [][ReadsFragment =>
            /\ pc = "finalizing"
            /\ buffers = <<>>
            /\ \A k \in DOMAIN open_files : open_files[k] = "closed"
            /\ DOMAIN open_files = DOMAIN tmpdir
            /\ \A k \in TileKeys : FragmentOf(k) = Inserted(k)]_vars
    /\ [][(pc \in {"listing", "finalizing", "done"}) =>
            /\ UNCHANGED <<input, ways_seen, ways_written, buffers, open_files, gzip_opens>>
            /\ (tmpdir' = tmpdir \/ pc' = "done")]_vars

\* C14's case: the loop has read the fragment of one key and has another
\* still to read
FragmentReadWitness ==
    /\ pc = "finalizing"
    /\ \E k \in TileKeys : written[k] > 0
    /\ listing # {}
    /\ ways_written >= 2

\* C15: when the run is done no fragment is left in tmpdir, and a step
\* that removes the fragment of a key finds the document of the key written,
\* with the Features of the fragment.
NoFragmentLeftWhenDone ==
    /\ [](pc = "done" => tmpdir = EmptyDict)
    /\ [][\A k \in DOMAIN tmpdir :
            k \notin DOMAIN tmpdir' =>
                /\ written[k] > 0
                /\ Readable(out_country[k])
                /\ out_country[k].features =
                      [i \in 1..Len(tmpdir[k]) |-> JsonLoads(tmpdir[k][i])]]_vars

\* C15's case: the run is done, it had fragments of two keys and wrote the
\* documents of both
FragmentsRemovedWitness ==
    /\ pc = "done"
    /\ Cardinality({k \in TileKeys : written[k] > 0}) >= 2
    /\ tmpdir = EmptyDict

(***************************************************************************)
(* Claims about the tile list and the bounds of a record.                  *)
(***************************************************************************)
\* the number of payloads pending for the key k
PendingCount(k) == Len(PendingOf(k))

OnePayloadPerListEntry ==
    [][\A k \in TileKeys :
          PendingCount(k)' = PendingCount(k)
                             + Cardinality({m \in 1..Len(tiles') : tiles'[m] = k})]_vars

\* the latitude is within the Mercator limits
WithinMercator(lat) == Leq(Neg(MercatorLimit), lat) /\ Leq(lat, MercatorLimit)

\* the records of the input for which the handler called tile-math
Boxed ==
    {j \in 1..Len(input) : input[j] \in AcceptedWays /\ ~MaxspeedMph[COUNTRY][input[j]].raised}

\* C17: the bounds handed to tile-math have south and north within the
\* Mercator limits, south <= north and west <= east; west and east are
\* longitudes of valid points of the record and enclose all of them; south
\* and north are latitudes of valid points or a limit, and enclose every
\* valid point that is within the limits.
BoundsClampedAndOrdered ==
    Boxed # {} =>
        LET j       == CHOOSE x \in Boxed : \A y \in Boxed : y <= x
            points  == Range(ValidPoints(Ways[input[j]]))
            lons    == {q[1] : q \in points}
            lats    == {q[2] : q \in points}
            limits  == {MercatorLimit, Neg(MercatorLimit)}
        IN  /\ bbox # <<>>
            /\ WithinMercator(bbox.south) /\ WithinMercator(bbox.north)
            /\ Leq(bbox.south, bbox.north)
            /\ Leq(bbox.west, bbox.east)
            /\ bbox.west \in lons /\ bbox.east \in lons
            /\ bbox.south \in lats \cup limits /\ bbox.north \in lats \cup limits
            /\ \A q \in points :
                  /\ Leq(bbox.west, q[1]) /\ Leq(q[1], bbox.east)
                  /\ WithinMercator(q[2]) => Leq(bbox.south, q[2]) /\ Leq(q[2], bbox.north)
                  /\ Gt(q[2], MercatorLimit) => bbox.north = MercatorLimit
                  /\ Lt(q[2], Neg(MercatorLimit)) => bbox.south = Neg(MercatorLimit)

\* C17's case: the handler called tile-math for the record whose points lie
\* beyond both limits, and for a record with an invalid point before it
BoundsClampedWitness ==
    /\ bbox # <<>>
    /\ bbox.north = MercatorLimit /\ bbox.south = Neg(MercatorLimit)
    /\ \E j \in Boxed : Len(Ways[input[j]].nodes) > Len(ValidPoints(Ways[input[j]]))

(***************************************************************************)
(* Claims about when a spill happens and about the handles.                *)
(***************************************************************************)
\* a step of the handler (a record is read) in which a fragment or a handle
\* changes
SpillsWhileReading == input' # input /\ (tmpdir' # tmpdir \/ open_files' # open_files)

\* C18: ways_seen counts every record read; a step of the handler spills
\* only if the record is accepted, its ordinal is a multiple of the period
\* and the lines pending after its insertions are at least --flush; and a
\* rejected record at a multiple of the period changes no buffer, fragment
\* or handle.
SpillOnlyAtPeriodOnAcceptedRecord ==
    /\ [](pc = "reading" => ways_seen = Len(input))
    /\ [][SpillsWhileReading =>
            /\ input'[Len(input')] \in AcceptedWays
            /\ ways_seen' % FlushPeriod = 0
            /\ TotalLines(buffers) + Len(tiles') >= args.flush]_vars
    /\ [][(input' # input /\ ways_seen' % FlushPeriod = 0
                /\ input'[Len(input')] \notin AcceptedWays)
            => UNCHANGED <<buffers, tmpdir, open_files, gzip_opens>>]_vars

\* C18's case: the record at the period was accepted and the handler
\* spilled, a rejected record before it counted in the ordinal
PeriodicSpillWitness ==
    /\ pc = "reading"
    /\ Len(input) = FlushPeriod
    /\ input[1] \notin AcceptedWays
    /\ DOMAIN tmpdir # {}
    /\ buffers = <<>>

\* the keys of which a payload has left the buffers
SpilledKeys == {k \in TileKeys : Len(Inserted(k)) > Len(PendingOf(k))}

\* C19: while the run reads the stream the keys with a handle are the keys
\* spilled at least once and every handle is open; gzip.open has run once
\* per key with a handle; a step that leaves the run reading keeps every
\* handle; and an open handle stops being open only in the close loop,
\* after the final flush has emptied the buffers.
HandlesFollowSpills ==
    /\ [](pc = "reading" =>
            /\ DOMAIN open_files = SpilledKeys
            /\ \A k \in DOMAIN open_files : open_files[k] = "open")
    /\ [](gzip_opens = Cardinality(DOMAIN open_files))
    /\ [][(pc' = "reading") =>
            \A k \in DOMAIN open_files :
                k \in DOMAIN open_files' /\ open_files'[k] = open_files[k]]_vars
    /\ [][\A k \in DOMAIN open_files :
            (open_files[k] = "open" /\ (k \notin DOMAIN open_files' \/ open_files'[k] # "open"))
            => pc = "closing" /\ buffers = <<>>]_vars

\* C19's case: a key was spilled at the period and again by the final
\* flush, through one handle
HandleReusedWitness ==
    /\ pc = "closing"
    /\ Len(input) > FlushPeriod
    /\ \E k \in DOMAIN open_files :
          Len(FragmentOf(k)) = Len(input) /\ open_files[k] = "open"
    /\ Cardinality(DOMAIN open_files) >= 2
    /\ gzip_opens = Cardinality(DOMAIN open_files)

====
